---------------------------- MODULE Spec2Model ----------------------------
(***************************************************************************)
(* Model of the two Monte Carlo scripts of the repository:                 *)
(*   - MontyHall.py: class MontyHallSimulator (simulate_trial,              *)
(*     run_simulation, calculate_statistics, print_results);               *)
(*   - "Estimation of PI.py": generate_random_points, calculate_distances,  *)
(*     estimate_pi, plot_results, main.                                    *)
(* Random draws are nondeterministic choices.  Percentages and the pi      *)
(* estimate are IEEE-754 binary64 values, modelled bit by bit (significand *)
(* as a sequence of bits, round-to-nearest-even), because the scripts      *)
(* compute them with float64 true division and multiplication.             *)
(***************************************************************************)
EXTENDS Integers, Sequences, FiniteSets, TLC

(***************************************************************************)
(* Bounds of the model.                                                    *)
(***************************************************************************)
\* Largest num_trials a MontyHallSimulator is constructed with.
MaxTrials == 3

\* Largest trial count of the scaled-down trials list of the pi program.
MaxPoints == 2

\* Grid resolution of the sampled square: a coordinate is k/Scale for
\* k in -Scale..Scale, so the square [-1,1] x [-1,1] has (2*Scale+1)^2 points.
Scale == 1

(***************************************************************************)
(* IEEE-754 binary64 arithmetic on non-negative values.                    *)
(* A finite positive value is [cls |-> "finite", exp |-> e, sig |-> s]     *)
(* with s a sequence of Precision bits, s[1] = 1, denoting                 *)
(* s[1].s[2]...s[Precision] (binary) times 2^e.                            *)
(***************************************************************************)
\* Number of significand bits of a float64 (numpy.float64 / Python float).
Precision == 53

Zeros(k) == [i \in 1..k |-> 0]

FZero == [cls |-> "zero", exp |-> 0, sig |-> Zeros(Precision)]

FNaN == [cls |-> "nan", exp |-> 0, sig |-> Zeros(Precision)]

FInf == [cls |-> "inf", exp |-> 0, sig |-> Zeros(Precision)]

Finite(e, s) == [cls |-> "finite", exp |-> e, sig |-> s]

Max2(a, b) == IF a >= b THEN a ELSE b

Min2(a, b) == IF a <= b THEN a ELSE b

\* Binary digits of a natural number, most significant first.
RECURSIVE NatBits(_)
NatBits(n) == IF n < 2 THEN <<n>> ELSE Append(NatBits(n \div 2), n % 2)

\* A bit sequence without its leading zeros (<<>> for zero).
StripLeading(b) ==
    IF \A i \in 1..Len(b) : b[i] = 0 THEN <<>>
    ELSE LET f == CHOOSE i \in 1..Len(b) :
                      b[i] = 1 /\ \A j \in 1..(i-1) : b[j] = 0
         IN  SubSeq(b, f, Len(b))

\* A bit sequence without its trailing zeros.
StripTrailing(b) ==
    IF \A i \in 1..Len(b) : b[i] = 0 THEN <<>>
    ELSE LET l == CHOOSE i \in 1..Len(b) :
                      b[i] = 1 /\ \A j \in (i+1)..Len(b) : b[j] = 0
         IN  SubSeq(b, 1, l)

\* Carry into bit position i (position L is the least significant) of x + y:
\* some lower position generates a carry and every position between
\* propagates it.
CarryIn(x, y, i) ==
    \E j \in (i+1)..Len(x) :
        /\ x[j] + y[j] = 2
        /\ \A k \in (i+1)..(j-1) : x[k] + y[k] = 1

\* Exact sum of two naturals given as bit sequences.
BitsAdd(x, y) ==
    LET L  == Max2(Len(x), Len(y))
        px == <<0>> \o Zeros(L - Len(x)) \o x
        py == <<0>> \o Zeros(L - Len(y)) \o y
    IN  StripLeading([i \in 1..(L+1) |->
            (px[i] + py[i] + (IF CarryIn(px, py, i) THEN 1 ELSE 0)) % 2])

\* A significand that is not all ones, plus one unit in the last place.
Incr(s) ==
    LET j == CHOOSE i \in 1..Len(s) :
                 s[i] = 0 /\ \A k \in (i+1)..Len(s) : s[k] = 1
    IN  [i \in 1..Len(s) |-> IF i < j THEN s[i] ELSE IF i = j THEN 1 ELSE 0]

\* Round to nearest, ties to even: bits (leading bit 1) denote
\* bits[1].bits[2]... times 2^e; sticky says a non-zero remainder lies below.
RoundBits(bits, sticky, e) ==
    LET L      == Len(bits)
        padded == IF L >= Precision + 1 THEN bits
                  ELSE bits \o Zeros(Precision + 1 - L)
        head   == SubSeq(padded, 1, Precision)
        guard  == padded[Precision + 1]
        st     == sticky \/ \E i \in (Precision + 2)..Len(padded) : padded[i] = 1
        up     == guard = 1 /\ (st \/ head[Precision] = 1)
    IN  IF ~up THEN Finite(e, head)
        ELSE IF \A i \in 1..Precision : head[i] = 1
             THEN Finite(e + 1, <<1>> \o Zeros(Precision - 1))
             ELSE Finite(e, Incr(head))

\* Conversion of a non-negative integer below 2^31 to float64 (exact).
IntToFloat(k) ==
    IF k = 0 THEN FZero
    ELSE LET b == NatBits(k) IN RoundBits(b, FALSE, Len(b) - 1)

\* 2^i modulo b, by repeated squaring.
RECURSIVE Pow2Mod(_, _)
Pow2Mod(i, b) ==
    IF i = 0 THEN 1 % b
    ELSE LET h == Pow2Mod(i \div 2, b)
         IN  (h * h * (IF i % 2 = 1 THEN 2 ELSE 1)) % b

\* Remainder of r * 2^i divided by b.
RemAt(r, b, i) == ((r % b) * Pow2Mod(i, b)) % b

\* Long division: the first k fractional bits of r/b (r < b), and the
\* remainder left after them.
DivBits(r, b, k) ==
    [bits |-> [i \in 1..k |-> IF 2 * RemAt(r, b, i - 1) >= b THEN 1 ELSE 0],
     rem  |-> RemAt(r, b, k)]

\* Least k with a * 2^k >= b (a, b > 0).
RECURSIVE ShiftUp(_, _)
ShiftUp(a, b) == IF a >= b THEN 0 ELSE 1 + ShiftUp(2 * a, b)

\* Greatest k with b * 2^k <= a (a >= b > 0).
RECURSIVE ShiftDown(_, _)
ShiftDown(a, b) == IF 2 * b > a THEN 0 ELSE 1 + ShiftDown(a, 2 * b)

RECURSIVE Pow2(_)
Pow2(k) == IF k = 0 THEN 1 ELSE 2 * Pow2(k - 1)

\* numpy true division of two non-negative integers (both converted to
\* float64 exactly, the quotient correctly rounded); x/0 is nan or inf.
TrueDivide(s, n) ==
    IF n = 0 THEN (IF s = 0 THEN FNaN ELSE FInf)
    ELSE IF s = 0 THEN FZero
    ELSE LET e == IF s >= n THEN ShiftDown(s, n) ELSE 0 - ShiftUp(s, n)
             a == IF e < 0 THEN s * Pow2(0 - e) ELSE s
             b == IF e > 0 THEN n * Pow2(e) ELSE n
             \* now b <= a < 2b: the quotient is 1.xxx times 2^e
             q == DivBits(a - b, b, Precision)
         IN  RoundBits(<<1>> \o q.bits, q.rem # 0, e)

RECURSIVE MulAcc(_, _, _, _)
MulAcc(A, tb, i, acc) ==
    IF i > Len(tb) THEN acc
    ELSE MulAcc(A, tb, i + 1,
                IF tb[i] = 1 THEN BitsAdd(acc, A \o Zeros(Len(tb) - i)) ELSE acc)

\* float64 multiplication of non-negative values.
FloatMul(a, b) ==
    IF a.cls = "nan" \/ b.cls = "nan" THEN FNaN
    ELSE IF a.cls = "inf" \/ b.cls = "inf"
         THEN (IF a.cls = "zero" \/ b.cls = "zero" THEN FNaN ELSE FInf)
    ELSE IF a.cls = "zero" \/ b.cls = "zero" THEN FZero
    ELSE LET ta == StripTrailing(a.sig)
             tb == StripTrailing(b.sig)
             p  == MulAcc(ta, tb, 1, <<>>)
             \* a = ta * 2^(a.exp - Len(ta) + 1), b likewise
             e  == (Len(p) - 1) + (a.exp - Len(ta) + 1) + (b.exp - Len(tb) + 1)
         IN  RoundBits(p, FALSE, e)

(***************************************************************************)
(* MontyHall.py: a MontyHallSimulator instance and the output of the call  *)
(* made on it last.                                                        *)
(***************************************************************************)
VARIABLES
    num_trials,     \* self.num_trials
    verbose,        \* self.verbose
    dataframe,      \* self.dataframe: the sequence of its rows
    runs,           \* completed run_simulation calls on the instance
    trial_frames,   \* locals of the simulate_trial calls of the last run, in call order
    last_call,      \* the method called last
    outcome,        \* how that call ended: its return value or the exception raised
    stdout,         \* lines that call printed
    log             \* log records that call emitted

mhVars == <<num_trials, verbose, dataframe, runs, trial_frames, last_call,
            outcome, stdout, log>>

(***************************************************************************)
(* Estimation of PI.py: main() and the estimate_pi call it makes.          *)
(***************************************************************************)
VARIABLES
    pc,             \* where main() stands
    trial_idx,      \* position of num_trials in the trials list
    est_frame,      \* locals of the running estimate_pi call (<<>> when none runs)
    pi_estimate,    \* main's pi_estimate
    batch,          \* main's x, y, distances, inside_circle (<<>> when unbound)
    figure          \* what the open plot window shows (<<>> when none is open)

piVars == <<pc, trial_idx, est_frame, pi_estimate, batch, figure>>

vars == <<mhVars, piVars>>

\* Re-running run_simulation on an instance that already ran is explored
\* for instances of at most this many trials, and at most MaxRuns runs.
MaxRerunTrials == 1

MaxRuns == 2

\* doors = [0, 0, 1], indexed from 0.
InitialDoors == [i \in 0..2 |-> IF i = 2 THEN 1 ELSE 0]

\* np.random.shuffle(doors): every rearrangement of the list.
Shuffles(doors) == {[i \in 0..2 |-> doors[p[i]]] : p \in Permutations(0..2)}

\* range(n) as a sequence: empty when n <= 0.
Range(n) == [i \in 1..n |-> i - 1]

\* doors.index(1): the first index holding 1.
Index(doors, v) == CHOOSE i \in 0..2 : doors[i] = v /\ \A j \in 0..(i-1) : doors[j] # v

\* A plausible slip: the host may open any door but the player's.
possible_doors_any_other(doors, player_choice) ==
    SelectSeq(Range(3), LAMBDA i : i # player_choice)

\* A plausible slip: the host may open any goat door, the player's included.
possible_doors_any_goat(doors, player_choice) ==
    SelectSeq(Range(3), LAMBDA i : doors[i] = 0)

\* [i for i in range(3) if i != player_choice and doors[i] == 0]
possible_doors(doors, player_choice) ==
    SelectSeq(Range(3), LAMBDA i : i # player_choice /\ doors[i] = 0)

\* A plausible slip: the door after the player's, whichever the host opened.
remaining_door_next(player_choice, host_opens) == (player_choice + 1) % 3

\* A plausible slip: the switch goes to the door the host opened.
remaining_door_opened(player_choice, host_opens) == host_opens

\* remaining_door = 3 - player_choice - host_opens
remaining_door(player_choice, host_opens) == 3 - player_choice - host_opens

\* int(b)
BoolToInt(b) == IF b THEN 1 ELSE 0

\* str(d) for a door value.
Str(d) == IF d = 0 THEN "0" ELSE "1"

\* ''.join(str(d) for d in doors): the string as its sequence of characters.
JoinDoors(doors) == [i \in 1..3 |-> Str(doors[i - 1])]

\* The random draws of one simulate_trial call: the shuffled doors, the
\* result of randint(0, 3) and the position np.random.choice picks in
\* possible_doors (choice of an empty list raises; the list is never empty).
TrialDraws ==
    {[shuffle |-> d, randint |-> p, choice |-> k] :
        d \in Shuffles(InitialDoors), p \in 0..2, k \in 1..2}

DrawIsPossible(r) == r.choice <= Len(possible_doors(r.shuffle, r.randint))

PossibleDraws == {r \in TrialDraws : DrawIsPossible(r)}

\* simulate_trial under the draws r: its locals and the dict it returns.
simulate_trial(r) ==
    LET doors          == r.shuffle
        player_choice  == r.randint
        car_position   == Index(doors, 1)
        possible       == possible_doors(doors, player_choice)
        host_opens     == possible[r.choice]
        remaining      == remaining_door(player_choice, host_opens)
        stay_win       == BoolToInt(player_choice = car_position)
        switch_win     == BoolToInt(remaining = car_position)
    IN  [doors          |-> doors,
         player_choice  |-> player_choice,
         car_position   |-> car_position,
         possible_doors |-> possible,
         host_opens     |-> host_opens,
         remaining_door |-> remaining,
         ret |-> [DoorsConfiguration |-> JoinDoors(doors),
                  PlayerChoice       |-> player_choice + 1,
                  HostOpens          |-> host_opens + 1,
                  RemainingDoor      |-> remaining + 1,
                  StayWin            |-> stay_win,
                  SwitchWin          |-> switch_win]]

\* The calls of [self.simulate_trial() for _ in range(self.num_trials)].
TrialCalls(n, draws) == [i \in 1..Len(Range(n)) |-> simulate_trial(draws[i])]

\* A plausible slip: the new rows are appended to the table already held.
run_simulation_append(old, frames) == old \o [i \in 1..Len(frames) |-> frames[i].ret]

\* self.dataframe = pd.DataFrame(results)
run_simulation_table(old, frames) == [i \in 1..Len(frames) |-> frames[i].ret]

LogRecord(level, msg) == [level |-> level, msg |-> msg]

None == [kind |-> "returned", exc |-> "", value |-> <<>>]

Returned(v) == [kind |-> "returned", exc |-> "", value |-> v]

Raised(e) == [kind |-> "raised", exc |-> e, value |-> <<>>]

\* self.dataframe[col].sum()
RECURSIVE ColumnSum(_, _)
ColumnSum(df, col) ==
    IF df = <<>> THEN 0 ELSE df[1][col] + ColumnSum(Tail(df), col)

Hundred == IntToFloat(100)

\* (wins / self.num_trials) * 100 in float64
Percentage(wins, n) == FloatMul(TrueDivide(wins, n), Hundred)

\* Percentage on the counts a run can produce, computed once.
PercentageTable ==
    [n \in 1..(MaxTrials + 1) |-> [w \in 0..n |-> Percentage(w, n)]]

CachedPercentage(wins, n) ==
    IF n \in 1..(MaxTrials + 1) /\ wins \in 0..n
    THEN PercentageTable[n][wins] ELSE Percentage(wins, n)

\* A plausible slip: both percentages read the 'Stay Win' column.
calculate_statistics_same_column(df, n, v) ==
    IF df = <<>> THEN [outcome |-> Raised("KeyError"), log |-> <<>>]
    ELSE LET p == CachedPercentage(ColumnSum(df, "StayWin"), n)
         IN  [outcome |-> Returned(<<p, p>>),
              log |-> IF v THEN <<LogRecord("INFO", "Statistics calculated")>>
                      ELSE <<>>]

\* calculate_statistics: an empty DataFrame has no 'Stay Win' column, so
\* indexing it raises KeyError before anything is logged.
calculate_statistics(df, n, v) ==
    IF df = <<>> THEN [outcome |-> Raised("KeyError"), log |-> <<>>]
    ELSE LET stay_wins             == ColumnSum(df, "StayWin")
             switch_wins           == ColumnSum(df, "SwitchWin")
             stay_win_percentage   == CachedPercentage(stay_wins, n)
             switch_win_percentage == CachedPercentage(switch_wins, n)
         IN  [outcome |-> Returned(<<stay_win_percentage, switch_win_percentage>>),
              log |-> IF v THEN <<LogRecord("INFO", "Statistics calculated")>>
                      ELSE <<>>]

ResultLines ==
    <<"Results after {n} trials:", "Winning by Staying: {:.2f}%",
      "Winning by Switching: {:.2f}%">>

\* A plausible slip: the handler logs whatever verbose says.
print_results_always_logs(df, n, v) ==
    LET s == calculate_statistics(df, n, v)
    IN  IF s.outcome.kind = "returned"
        THEN [outcome |-> None, stdout |-> ResultLines, log |-> s.log]
        ELSE [outcome |-> None, stdout |-> <<>>,
              log |-> s.log \o <<LogRecord("ERROR", "Error in printing results: ")>>]

\* print_results: the three lines when calculate_statistics returns; when
\* it raises, the except clause logs if verbose and returns.
print_results(df, n, v) ==
    LET s == calculate_statistics(df, n, v)
    IN  IF s.outcome.kind = "returned"
        THEN [outcome |-> None, stdout |-> ResultLines, log |-> s.log]
        ELSE [outcome |-> None, stdout |-> <<>>,
              log |-> s.log \o
                      (IF v THEN <<LogRecord("ERROR", "Error in printing results: ")>>
                       ELSE <<>>)]

\* MontyHallSimulator(num_trials, verbose)
MHInit ==
    /\ num_trials \in 0..MaxTrials
    /\ verbose \in BOOLEAN
    /\ dataframe = <<>>
    /\ runs = 0
    /\ trial_frames = <<>>
    /\ last_call = "__init__"
    /\ outcome = None
    /\ stdout = <<>>
    /\ log = IF verbose THEN <<LogRecord("INFO", "Simulator initialized")>> ELSE <<>>

RunSimulation ==
    /\ runs < MaxRuns
    /\ runs = 0 \/ num_trials <= MaxRerunTrials
    /\ \E draws \in [1..Len(Range(num_trials)) -> PossibleDraws] :
          LET frames == TrialCalls(num_trials, draws)
          IN  /\ trial_frames' = frames
              /\ dataframe' = run_simulation_table(dataframe, frames)
    /\ runs' = runs + 1
    /\ last_call' = "run_simulation"
    /\ outcome' = None
    /\ stdout' = <<>>
    /\ log' = IF verbose THEN <<LogRecord("INFO", "Simulation completed.")>> ELSE <<>>
    /\ UNCHANGED <<num_trials, verbose>>
    /\ UNCHANGED piVars

CalculateStatistics ==
    LET s == calculate_statistics(dataframe, num_trials, verbose)
    IN  /\ last_call' = "calculate_statistics"
        /\ outcome' = s.outcome
        /\ stdout' = <<>>
        /\ log' = s.log
        /\ UNCHANGED <<num_trials, verbose, dataframe, runs, trial_frames>>
        /\ UNCHANGED piVars

PrintResults ==
    LET p == print_results(dataframe, num_trials, verbose)
    IN  /\ last_call' = "print_results"
        /\ outcome' = p.outcome
        /\ stdout' = p.stdout
        /\ log' = p.log
        /\ UNCHANGED <<num_trials, verbose, dataframe, runs, trial_frames>>
        /\ UNCHANGED piVars


(***************************************************************************)
(* The pi program.  A coordinate k stands for the real number k/Scale.     *)
(***************************************************************************)
\* trials = [10, 100, 1000, 10000, 1000000], scaled down to 1..MaxPoints.
trials == [i \in 1..MaxPoints |-> i]

Coord == (0 - Scale)..Scale

\* generate_random_points(num_trials): the pairs (x, y) it can return.
generate_random_points(n) ==
    {[x |-> xs, y |-> ys] : xs \in [1..n -> Coord], ys \in [1..n -> Coord]}

\* calculate_distances(x, y): np.sqrt(x**2 + y**2) elementwise.  A distance
\* is kept exactly, as the radicand r of sqrt(r)/Scale.
calculate_distances(x, y) ==
    [i \in 1..Len(x) |-> [radicand |-> x[i] * x[i] + y[i] * y[i]]]

\* A plausible slip: a point on the circle counts as outside.
LeqOne_strict(d) == d.radicand < Scale * Scale

\* d <= 1 for a distance d = sqrt(d.radicand)/Scale.
LeqOne(d) == d.radicand <= Scale * Scale

\* distances <= 1, elementwise.
Classify(distances) == [i \in 1..Len(distances) |-> LeqOne(distances[i])]

\* np.sum(mask): the number of True entries.
SumMask(mask) == Cardinality({i \in 1..Len(mask) : mask[i]})

\* 4 * count / num_trials in float64
EstimateValue(count, n) == TrueDivide(4 * count, n)

\* EstimateValue on the counts a batch can produce, computed once.
EstimateTable ==
    [n \in 1..(MaxPoints + 1) |-> [c \in 0..n |-> EstimateValue(c, n)]]

CachedEstimate(count, n) ==
    IF n \in 1..(MaxPoints + 1) /\ count \in 0..n
    THEN EstimateTable[n][count] ELSE EstimateValue(count, n)

\* The locals of estimate_pi(num_trials) once the points p are drawn.
estimate_pi_locals(p) ==
    LET distances == calculate_distances(p.x, p.y)
    IN  [x |-> p.x, y |-> p.y, distances |-> distances,
         inside_circle |-> Classify(distances)]

\* return 4 * np.sum(inside_circle) / num_trials
estimate_pi_return(frame, n) == CachedEstimate(SumMask(frame.inside_circle), n)

\* x[mask]: the entries of x where mask is True, in order.
RECURSIVE Masked(_, _)
Masked(x, mask) ==
    IF x = <<>> THEN <<>>
    ELSE (IF mask[1] THEN <<x[1]>> ELSE <<>>) \o Masked(Tail(x), Tail(mask))

Not(mask) == [i \in 1..Len(mask) |-> ~mask[i]]

\* plot_results(x, y, inside_circle, pi_estimate, num_trials): the figure.
plot_results(x, y, inside_circle, estimate, n) ==
    [red_x  |-> Masked(x, inside_circle), red_y  |-> Masked(y, inside_circle),
     blue_x |-> Masked(x, Not(inside_circle)),
     blue_y |-> Masked(y, Not(inside_circle)),
     inside_circle |-> inside_circle,
     title_trials |-> n, title_estimate |-> estimate]

PiInit ==
    /\ pc = "estimate_pi"
    /\ trial_idx = 1
    /\ est_frame = <<>>
    /\ pi_estimate = <<>>
    /\ batch = <<>>
    /\ figure = <<>>

\* Neither program has started.
PiIdle ==
    /\ pc = "idle"
    /\ trial_idx = 0
    /\ est_frame = <<>>
    /\ pi_estimate = <<>>
    /\ batch = <<>>
    /\ figure = <<>>

MHIdle ==
    /\ num_trials = 0
    /\ verbose = FALSE
    /\ dataframe = <<>>
    /\ runs = 0
    /\ trial_frames = <<>>
    /\ last_call = "none"
    /\ outcome = None
    /\ stdout = <<>>
    /\ log = <<>>

\* Line 50, into estimate_pi: lines 28-30.
EstimatePiCall ==
    /\ pc = "estimate_pi"
    /\ \E p \in generate_random_points(trials[trial_idx]) :
          est_frame' = estimate_pi_locals(p)
    /\ pc' = "estimate_pi_return"
    /\ UNCHANGED <<trial_idx, pi_estimate, batch, figure>>
    /\ UNCHANGED mhVars

\* Line 31: estimate_pi returns and line 50 binds pi_estimate.
EstimatePiReturn ==
    /\ pc = "estimate_pi_return"
    /\ pi_estimate' = estimate_pi_return(est_frame, trials[trial_idx])
    /\ est_frame' = <<>>
    /\ pc' = "sample"
    /\ UNCHANGED <<trial_idx, batch, figure>>
    /\ UNCHANGED mhVars

\* Lines 51-53.
SampleBatch ==
    /\ pc = "sample"
    /\ \E p \in generate_random_points(trials[trial_idx]) :
          LET distances == calculate_distances(p.x, p.y)
          IN  batch' = [x |-> p.x, y |-> p.y, distances |-> distances,
                        inside_circle |-> Classify(distances)]
    /\ pc' = "plot_results"
    /\ UNCHANGED <<trial_idx, est_frame, pi_estimate, figure>>
    /\ UNCHANGED mhVars

\* Line 54, up to plt.show() opening the window.
PlotResults ==
    /\ pc = "plot_results"
    /\ figure' = plot_results(batch.x, batch.y, batch.inside_circle,
                              pi_estimate, trials[trial_idx])
    /\ pc' = "show"
    /\ UNCHANGED <<trial_idx, est_frame, pi_estimate, batch>>
    /\ UNCHANGED mhVars

\* plt.show() returns and the loop goes on.  x, y, distances and
\* inside_circle are not read again before line 51 rebinds them: the model
\* drops them here.
CloseFigure ==
    /\ pc = "show"
    /\ figure' = <<>>
    /\ batch' = <<>>
    /\ IF trial_idx < Len(trials)
       THEN trial_idx' = trial_idx + 1 /\ pc' = "estimate_pi"
       ELSE trial_idx' = trial_idx /\ pc' = "done"
    /\ UNCHANGED <<est_frame, pi_estimate>>
    /\ UNCHANGED mhVars

Init == MHInit /\ PiIdle

Next == RunSimulation \/ CalculateStatistics \/ PrintResults

Spec == Init /\ [][Next]_vars

InitPi == MHIdle /\ PiInit

NextPi ==
    EstimatePiCall \/ EstimatePiReturn \/ SampleBatch \/ PlotResults \/ CloseFigure

SpecPi == InitPi /\ [][NextPi]_vars

(***************************************************************************)
(* Float operations the properties need (the programs do not use them).    *)
(***************************************************************************)
\* float64 addition of non-negative values.
FloatAdd(a, b) ==
    IF a.cls = "nan" \/ b.cls = "nan" THEN FNaN
    ELSE IF a.cls = "inf" \/ b.cls = "inf" THEN FInf
    ELSE IF a.cls = "zero" THEN b
    ELSE IF b.cls = "zero" THEN a
    ELSE LET lo == Min2(a.exp, b.exp)
             A  == a.sig \o Zeros(a.exp - lo)
             B  == b.sig \o Zeros(b.exp - lo)
             s  == BitsAdd(A, B)
         IN  RoundBits(s, FALSE, (Len(s) - 1) + lo - (Precision - 1))

\* Lexicographic order of two bit sequences of the same length.
BitsLeq(x, y) ==
    \/ x = y
    \/ \E i \in 1..Len(x) :
          /\ x[i] < y[i]
          /\ \A j \in 1..(i-1) : x[j] = y[j]

\* a <= b on non-negative floats (False when either is nan, as in IEEE-754).
FloatLeq(a, b) ==
    IF a.cls = "nan" \/ b.cls = "nan" THEN FALSE
    ELSE IF a.cls = "zero" THEN TRUE
    ELSE IF b.cls = "inf" THEN TRUE
    ELSE IF a.cls = "inf" \/ b.cls = "zero" THEN FALSE
    ELSE \/ a.exp < b.exp
         \/ a.exp = b.exp /\ BitsLeq(a.sig, b.sig)

\* 100 - 2^-45 and 100 + 2^-45: two units in the last place around 100.0.
HundredLo == Finite(6, <<1, 1, 0, 0, 0, 1, 1>> \o [i \in 1..45 |-> 1] \o <<0>>)

HundredHi == Finite(6, <<1, 1, 0, 0, 1, 0, 0>> \o Zeros(44) \o <<1, 0>>)

Four == IntToFloat(4)

\* FloatAdd on the pairs of percentages a run can produce, computed once.
PercentageSumTable ==
    [n \in 1..(MaxTrials + 1) |->
        [w \in 0..n |-> FloatAdd(PercentageTable[n][w], PercentageTable[n][n - w])]]

\* pair[1] + pair[2] in float64; the table entry for (n, w) when the pair is
\* the one that entry was computed from.
PercentageSum(pair, n, w) ==
    IF /\ n \in 1..(MaxTrials + 1)
       /\ w \in 0..n
       /\ pair = <<PercentageTable[n][w], PercentageTable[n][n - w]>>
    THEN PercentageSumTable[n][w]
    ELSE FloatAdd(pair[1], pair[2])

Rows == 1..Len(dataframe)

Frames == 1..Len(trial_frames)

(***************************************************************************)
(* Properties of MontyHall.py (specification Spec).                        *)
(***************************************************************************)

\* C1: in every trial record simulate_trial returns, exactly one of
\* 'Stay Win' and 'Switch Win' is 1 and the other is 0.
C1_Complementary ==
    \A i \in Rows :
        /\ dataframe[i].StayWin \in {0, 1}
        /\ dataframe[i].SwitchWin \in {0, 1}
        /\ dataframe[i].StayWin + dataframe[i].SwitchWin = 1

\* A table holding a trial the stay strategy wins and one the switch wins.
C1_Witness ==
    /\ \E i \in Rows : dataframe[i].StayWin = 1 /\ dataframe[i].SwitchWin = 0
    /\ \E i \in Rows : dataframe[i].StayWin = 0 /\ dataframe[i].SwitchWin = 1

\* C2: in every trial the door the host opens differs from the player's
\* choice and does not hold the car, in the call's locals and in the record.
C2_HostOpensGoat ==
    \A i \in Frames :
        LET f == trial_frames[i]
            r == dataframe[i]
        IN  /\ f.host_opens \in 0..2
            /\ f.host_opens # f.player_choice
            /\ f.doors[f.host_opens] = 0
            /\ f.host_opens # f.car_position
            /\ r.HostOpens # r.PlayerChoice
            /\ r.DoorsConfiguration[r.HostOpens] = "0"

\* A trial whose player picked a goat (the host's door is forced) and a trial
\* whose player picked the car.
C2_Witness ==
    /\ Len(dataframe) = Len(trial_frames)
    /\ \E i \in Frames : trial_frames[i].player_choice # trial_frames[i].car_position
    /\ \E i \in Frames : trial_frames[i].player_choice = trial_frames[i].car_position

\* C3: print_results on an empty result table returns normally, prints none
\* of the three result lines, and logs one error record exactly when verbose
\* (nothing at all when not verbose).
C3_PrintOnEmpty ==
    (last_call = "print_results" /\ dataframe = <<>>) =>
        /\ outcome.kind = "returned"
        /\ stdout = <<>>
        /\ verbose => log = <<LogRecord("ERROR", "Error in printing results: ")>>
        /\ ~verbose => log = <<>>

\* print_results after a run of zero trials, verbose.
C3_Witness ==
    /\ last_call = "print_results"
    /\ dataframe = <<>>
    /\ runs > 0
    /\ verbose
    /\ Len(log) = 1

\* C4: once a run has completed, however many runs came before, the table
\* holds exactly num_trials records, one per simulate_trial call, in call order.
C4_ExactlyNumTrials ==
    runs > 0 =>
        /\ Len(trial_frames) = num_trials
        /\ Len(dataframe) = num_trials
        /\ \A i \in Rows : dataframe[i] = trial_frames[i].ret

\* A second run on an instance with trials.
C4_Witness ==
    /\ runs >= 2
    /\ num_trials >= 1
    /\ Len(dataframe) = num_trials

\* The (car position, player choice) combinations in which every legal host
\* choice gives the flag `field` the value 1.
WinningCombinations(field) ==
    {cp \in (0..2) \X (0..2) :
        \A r \in PossibleDraws :
            (Index(r.shuffle, 1) = cp[1] /\ r.randint = cp[2])
                => simulate_trial(r).ret[field] = 1}

SwitchWinning == WinningCombinations("SwitchWin")

StayWinning == WinningCombinations("StayWin")

\* C6: 'Switch Win' is 1 exactly when the player's choice is not the car door
\* and 'Stay Win' is 1 exactly when it is; of the 9 (car position, player
\* choice) combinations the switch wins 6 and the stay 3.
C6_SwitchWinsTwoThirds ==
    /\ \A i \in Frames :
          LET f == trial_frames[i]
          IN  /\ f.doors[f.car_position] = 1
              /\ (f.ret.SwitchWin = 1) <=> (f.player_choice # f.car_position)
              /\ (f.ret.StayWin = 1) <=> (f.player_choice = f.car_position)
    /\ Cardinality(SwitchWinning) = 6
    /\ Cardinality(StayWinning) = 3

\* A run with a trial the switch wins after a forced host door and a trial the
\* stay wins.
C6_Witness ==
    /\ \E i \in Frames :
          /\ trial_frames[i].ret.SwitchWin = 1
          /\ Len(trial_frames[i].possible_doors) = 1
    /\ \E i \in Frames : trial_frames[i].ret.StayWin = 1

\* The doors the host may legally open.
LegalDoors(f) == {d \in 0..2 : d # f.player_choice /\ f.doors[d] = 0}

\* C7: the doors the host may open are never none, one or two, two exactly
\* when the player's choice is the car door; the host opens one of them.
C7_LegalHostDoors ==
    \A i \in Frames :
        LET f == trial_frames[i]
            listed == {f.possible_doors[k] : k \in 1..Len(f.possible_doors)}
        IN  /\ listed = LegalDoors(f)
            /\ Len(f.possible_doors) = Cardinality(listed)
            /\ Len(f.possible_doors) \in {1, 2}
            /\ (Len(f.possible_doors) = 2) <=> (f.player_choice = f.car_position)
            /\ f.host_opens \in listed

\* Two trials with the same doors and the player on the car, the host opening
\* one goat door in the first and the other in the second.
C7_Witness ==
    \E i, j \in Frames :
        /\ trial_frames[i].doors = trial_frames[j].doors
        /\ trial_frames[i].player_choice = trial_frames[i].car_position
        /\ trial_frames[j].player_choice = trial_frames[j].car_position
        /\ trial_frames[i].host_opens < trial_frames[j].host_opens

\* C8: the remaining door 3 - player_choice - host_opens is a door in 0..2
\* other than the player's and the host's, and the three 1-indexed labels of
\* the record are a permutation of {1, 2, 3}.
C8_RemainingDoor ==
    \A i \in Frames :
        LET f == trial_frames[i]
            r == dataframe[i]
        IN  /\ f.remaining_door \in 0..2
            /\ f.remaining_door # f.player_choice
            /\ f.remaining_door # f.host_opens
            /\ r.PlayerChoice = f.player_choice + 1
            /\ r.HostOpens = f.host_opens + 1
            /\ r.RemainingDoor = f.remaining_door + 1
            /\ {r.PlayerChoice, r.HostOpens, r.RemainingDoor} = {1, 2, 3}

\* A trial whose remaining door is door 0 and one whose remaining door is door 2.
C8_Witness ==
    /\ Len(dataframe) = Len(trial_frames)
    /\ \E i \in Rows : dataframe[i].RemainingDoor = 1
    /\ \E i \in Rows : dataframe[i].RemainingDoor = 3

\* What a calculate_statistics call after a completed run of num_trials > 0
\* does, but for the sum of the two percentages.
C10_CountsAndTable ==
    /\ ColumnSum(dataframe, "StayWin") + ColumnSum(dataframe, "SwitchWin") = num_trials
    /\ outcome'.kind = "returned"
    /\ outcome'.value = <<CachedPercentage(ColumnSum(dataframe, "StayWin"), num_trials),
                          CachedPercentage(ColumnSum(dataframe, "SwitchWin"), num_trials)>>
    /\ dataframe' = dataframe

C10_Case == runs > 0 /\ num_trials > 0 /\ last_call' = "calculate_statistics"

\* The float64 sum of the two percentages a state holds as the return value.
ReturnedSum(o) ==
    PercentageSum(o.value, num_trials, ColumnSum(dataframe, "StayWin"))

\* C10 as stated: after a completed run with num_trials > 0,
\* calculate_statistics returns percentages of two counts that sum to
\* num_trials, the two percentages sum to exactly 100, and the table is
\* left unchanged.
C10_SumExactlyHundred ==
    [][C10_Case =>
        /\ C10_CountsAndTable
        /\ ReturnedSum(outcome') = Hundred]_vars

\* C10 amended: the two percentages sum to 100 up to float64 rounding, their
\* float64 sum lying within 2^-45 of 100; the rest as stated.
C10_SumNearHundred ==
    [][C10_Case =>
        /\ C10_CountsAndTable
        /\ LET sum == ReturnedSum(outcome')
           IN  FloatLeq(HundredLo, sum) /\ FloatLeq(sum, HundredHi)]_vars

\* calculate_statistics has returned percentages whose float64 sum is not 100.
C10_Witness ==
    /\ last_call = "calculate_statistics"
    /\ runs > 0
    /\ num_trials > 0
    /\ outcome.kind = "returned"
    /\ ReturnedSum(outcome) # Hundred

(***************************************************************************)
(* Properties of the pi program (specification SpecPi).                    *)
(***************************************************************************)

\* The points of a batch at distance at most 1 from the origin.
PointsInside(x, y) ==
    {i \in 1..Len(x) : x[i] * x[i] + y[i] * y[i] <= Scale * Scale}

\* C5: the value estimate_pi returns is 4 * (number of its points with
\* distance <= 1) / n in float64, and lies in [0, 4].
C5_EstimateInRange ==
    [][(pc = "estimate_pi_return" /\ pc' = "sample") =>
        /\ pi_estimate' =
              CachedEstimate(Cardinality(PointsInside(est_frame.x, est_frame.y)),
                             trials[trial_idx])
        /\ FloatLeq(FZero, pi_estimate')
        /\ FloatLeq(pi_estimate', Four)]_vars

\* estimate_pi has returned an estimate strictly between 0 and 4.
C5_Witness ==
    /\ pc = "sample"
    /\ pi_estimate # <<>>
    /\ pi_estimate.cls = "finite"
    /\ pi_estimate # Four

\* C9: the estimate in the title of the figure is 4 * (number of plotted
\* points classified inside) / n for the points passed to plot_results.
C9_TitleMatchesPlottedPoints ==
    pc = "show" =>
        figure.title_estimate =
            CachedEstimate(SumMask(figure.inside_circle), figure.title_trials)
=============================================================================
